---- MODULE Spec2Model ----
(***************************************************************************)
(* A model of pandas/util/_test_decorators.py:                             *)
(*   - check_file_leaks (the scoped leak checker),                         *)
(*   - safe_import, skip_if_no, skip_if_installed (dependency probes),     *)
(*   - the locale probes and the module-level skip marks.                  *)
(* Strings whose content the code inspects (warning messages, version      *)
(* strings) are sequences of one-character strings.                        *)
(***************************************************************************)
EXTENDS Integers, Sequences, FiniteSets, TLC

VARIABLES
    \* ---- check_file_leaks and the process around it
    pc,                 \* where control is: "idle", "body", or a step of __exit__
    scopes,             \* number of scopes entered so far
    sink,               \* who receives emitted warnings (warnings.showwarning state)
    filters,            \* the process's warning filter list
    catcher,            \* self.catcher: what catch_warnings saved at its __enter__
    record,             \* self.record: the list the catcher logs into
    psutil,             \* self.psutil
    flist,              \* self.flist
    conns,              \* self.conns
    ignore_connections, \* self.ignore_connections
    openFiles,          \* the process's open regular files
    connections,        \* the process's active connections
    events,             \* what the latest __exit__ did, in order
    outcome,            \* how control left the latest scope
    atEntry,            \* the process's files, connections and handler at scope entry
    bodyWarned,         \* the warnings the body of the current scope got recorded
    \* ---- dependency probes
    installed,          \* the importable modules of the environment
    probeCall,          \* the latest safe_import call and its result
    noMark,             \* the latest skip_if_no call and the mark it returned
    instMark,           \* the latest skip_if_installed call and the mark it returned
    \* ---- locale probes and module-level marks
    phase,              \* "unloaded" before the module is imported, "loaded" after
    lang,               \* locale.getlocale()[0] of the process
    arrayManager,       \* the value of the '--array-manager' configuration flag
    marks,              \* the module-level skip marks built at import
    localeProbe,        \* the latest direct call of the two locale probes
    testRun,            \* the latest test run under one of the marks
    loadInfo            \* the locale and the flag at the moment the module was imported

leakVars == <<pc, scopes, sink, filters, catcher, record, psutil, flist, conns,
              ignore_connections, openFiles, connections, events,
              outcome, atEntry, bodyWarned>>
probeVars == <<installed, probeCall, noMark, instMark>>
markVars == <<phase, lang, arrayManager, marks, localeProbe, testRun, loadInfo>>
vars == <<leakVars, probeVars, markVars>>

(***************************************************************************)
(* Python values the code tests for truth                                  *)
(***************************************************************************)
PyNone == [type |-> "NoneType", v |-> <<>>]
PyFalse == [type |-> "bool", v |-> <<>>]
PyTrue == [type |-> "bool", v |-> <<"1">>]
PyStr(chars) == [type |-> "str", v |-> chars]
PyModule(name) == [type |-> "module", v |-> name]
NoAttr == [type |-> "missing", v |-> <<>>]
PyBool(b) == IF b THEN PyTrue ELSE PyFalse

\* bool(x)
Truthy(x) == IF x.type \in {"bool", "str"} THEN x.v # <<>> ELSE x.type = "module"

\* ---- bounds of the model
MaxWarnings == 2
MaxScopes == 2

(***************************************************************************)
(* Warnings                                                                *)
(***************************************************************************)
\* The warning classes used by the bodies; each maps to its base class.
BaseClass == [Warning |-> "Exception",
              UserWarning |-> "Warning",
              ResourceWarning |-> "Warning",
              UnclosedSocketWarning |-> "ResourceWarning"]

RECURSIVE issubclass(_, _)
issubclass(c, base) ==
    \/ c = base
    \/ c \in DOMAIN BaseClass /\ issubclass(BaseClass[c], base)

\* str(warn.message) of the warnings the bodies emit.
MsgDeprecated == <<"o", "l", "d">>
MsgFile == <<"f", "i", "l", "e">>
MsgSsl == <<"a", " ", "s", "s", "l", ".", "S">>
MsgNearSsl == <<"s", "s", "-", "l", "s">>
Warnings == {[category |-> "UserWarning", message |-> MsgDeprecated],
             [category |-> "ResourceWarning", message |-> MsgFile],
             [category |-> "ResourceWarning", message |-> MsgSsl],
             [category |-> "UnclosedSocketWarning", message |-> MsgNearSsl]}

\* Python's  sub in s  on strings.
Contains(sub, s) ==
    \E i \in 1..(Len(s) - Len(sub) + 1) : SubSeq(s, i, i + Len(sub) - 1) = sub

IsLeakWarningExactCategory(warn) ==
    /\ warn.category = "ResourceWarning"
    /\ ~Contains(<<"s", "s", "l">>, warn.message)
\* The condition of the list comprehension of __exit__.
IsLeakWarning(warn) ==
    /\ issubclass(warn.category, "ResourceWarning")
    /\ ~Contains(<<"s", "s", "l">>, warn.message)

\* messages = [warn.message for warn in self.record if ...]
RECURSIVE LeakMessages(_)
LeakMessages(rec) ==
    IF rec = <<>> THEN <<>>
    ELSE (IF IsLeakWarning(Head(rec)) THEN <<Head(rec).message>> ELSE <<>>)
         \o LeakMessages(Tail(rec))

(***************************************************************************)
(* Open files and connections of the process                               *)
(***************************************************************************)
Paths == {"a", "b"}
Fds == {3, 4}
Positions == {0, 1}
Conn == "conn"
OpenFileRecords == [path : Paths, fd : Fds, position : Positions]

FileKeyWithPosition(x) == <<x.path, x.fd, x.position>>
\* The pair kept of each psutil popenfile.
FileKey(x) == <<x.path, x.fd>>
FileKeys(files) == {FileKey(x) : x \in files}

NoOutcome == [kind |-> "none", check |-> "none", text |-> <<>>]
NoEntry == [files |-> {}, conns |-> {}, sink |-> "outer", filters |-> "outer"]
NoCatcher == [sink |-> "unset", filters |-> "unset"]

(***************************************************************************)
(* The environment of the dependency probes                                *)
(***************************************************************************)
PsutilName == <<"p", "s", "u", "t", "i", "l">>
Missing == <<"n", "o", "p", "k", "g">>
ModNames == {PsutilName, Missing}

V_0_9 == <<"0", ".", "9">>
V_1_9_0 == <<"1", ".", "9", ".", "0">>
V_1_10 == <<"1", ".", "1", "0">>
V_1_10_0 == <<"1", ".", "1", "0", ".", "0">>
V_2_0 == <<"2", ".", "0">>
V_1_10rc1 == <<"1", ".", "1", "0", "r", "c", "1">>
V_1_10b == <<"1", ".", "1", "0", "b">>
Versions == {<<>>, V_0_9, V_1_9_0, V_1_10, V_1_10_0, V_2_0, V_1_10rc1}
MinVersions == {PyNone, PyStr(<<>>), PyStr(V_1_9_0), PyStr(V_1_10), PyStr(V_1_10_0),
                PyStr(V_1_10b)}

Absent == [present |-> FALSE, version |-> NoAttr, VERSION |-> NoAttr]
\* A module that imports: its __version__ and __VERSION__ attributes, if any.
PresentModules ==
    [present : {TRUE},
     version : {NoAttr} \cup {PyStr(v) : v \in Versions},
     VERSION : {NoAttr, PyStr(V_1_10_0)}]
Environments ==
    {[n \in ModNames |-> IF n = PsutilName THEN m ELSE Absent] :
        m \in PresentModules \cup {Absent}}

(***************************************************************************)
(* distutils.version.LooseVersion, as safe_import uses it                  *)
(***************************************************************************)
\* The characters of the version strings, in code point order.
CharOrder == <<".", "0", "1", "2", "3", "4", "5", "6", "7", "8", "9",
               "a", "b", "c", "r">>
Ord(c) == CHOOSE i \in 1..Len(CharOrder) : CharOrder[i] = c
Digits == {"0", "1", "2", "3", "4", "5", "6", "7", "8", "9"}
Lower == {"a", "b", "c", "r"}
CharClass(c) ==
    IF c \in Digits THEN "digit"
    ELSE IF c \in Lower THEN "alpha"
    ELSE IF c = "." THEN "dot" ELSE "other"

\* The length of the piece component_re.split cuts off the front of s.
PieceLen(s) ==
    IF CharClass(s[1]) = "dot" THEN 1
    ELSE CHOOSE n \in 1..Len(s) :
             /\ \A i \in 1..n : CharClass(s[i]) = CharClass(s[1])
             /\ n = Len(s) \/ CharClass(s[n + 1]) # CharClass(s[1])

\* int(obj) of a run of digits
RECURSIVE ToInt(_)
ToInt(run) ==
    IF run = <<>> THEN 0
    ELSE 10 * ToInt(SubSeq(run, 1, Len(run) - 1)) + (Ord(run[Len(run)]) - Ord("0"))

\* try: components[i] = int(obj); except ValueError: pass
Component(piece) ==
    IF CharClass(piece[1]) = "digit"
    THEN [int |-> TRUE, n |-> ToInt(piece), s |-> <<>>]
    ELSE [int |-> FALSE, n |-> 0, s |-> piece]

\* LooseVersion(vstring).version
RECURSIVE LooseVersion(_)
LooseVersion(vstring) ==
    IF vstring = <<>> THEN <<>>
    ELSE LET n == PieceLen(vstring)
             piece == SubSeq(vstring, 1, n)
             rest == LooseVersion(SubSeq(vstring, n + 1, Len(vstring)))
         IN IF piece = <<".">> THEN rest ELSE <<Component(piece)>> \o rest

\* a < b on strings
StrLess(a, b) ==
    \/ \E i \in 1..Len(a) :
          /\ i <= Len(b)
          /\ \A j \in 1..(i - 1) : a[j] = b[j]
          /\ Ord(a[i]) < Ord(b[i])
    \/ Len(a) < Len(b) /\ SubSeq(b, 1, Len(a)) = a

\* LooseVersion._cmp: -1, 0 or 1, or "TypeError" when an int meets a str.
Cmp(a, b) ==
    IF a = b THEN "0"
    ELSE LET differ == {i \in 1..Len(a) : i <= Len(b) /\ a[i] # b[i]} IN
         IF differ = {}
         THEN (IF Len(a) < Len(b) THEN "-1" ELSE "1")
         ELSE LET i == CHOOSE k \in differ : \A other \in differ : k <= other
                  x == a[i]
                  y == b[i]
              IN IF x.int # y.int THEN "TypeError"
                 ELSE IF x.int THEN (IF x.n < y.n THEN "-1" ELSE "1")
                 ELSE (IF StrLess(x.s, y.s) THEN "-1" ELSE "1")

(***************************************************************************)
(* safe_import, skip_if_installed, skip_if_no                              *)
(***************************************************************************)
ReturnValue(value) == [raised |-> "none", value |-> value]
Raise(exc) == [raised |-> exc, value |-> PyNone]

VersionAttrCapitalFirst(module) ==
    IF module.VERSION # NoAttr THEN ReturnValue(module.VERSION)
    ELSE IF module.version # NoAttr THEN ReturnValue(module.version)
    ELSE Raise("AttributeError")
\* getattr(..., "__version__"), and on AttributeError getattr(..., "__VERSION__")
VersionAttr(module) ==
    IF module.version # NoAttr THEN ReturnValue(module.version)
    ELSE IF module.VERSION # NoAttr THEN ReturnValue(module.VERSION)
    ELSE Raise("AttributeError")

safe_import(mod_name, min_version) ==
    IF ~installed[mod_name].present
    THEN ReturnValue(PyFalse)                         \* except ImportError
    ELSE IF ~Truthy(min_version)
    THEN ReturnValue(PyModule(mod_name))
    ELSE LET version == VersionAttr(installed[mod_name]) IN
         IF version.raised # "none" THEN version
         ELSE IF ~Truthy(version.value) THEN ReturnValue(PyFalse)
         ELSE LET c == Cmp(LooseVersion(version.value.v), LooseVersion(min_version.v))
              IN IF c = "TypeError" THEN Raise("TypeError")
                 ELSE IF c \in {"0", "1"} THEN ReturnValue(PyModule(mod_name))
                 ELSE ReturnValue(PyFalse)

Mark(condition, reason) == [condition |-> condition, reason |-> reason]

skip_if_installed(package) ==
    LET mod == safe_import(package, PyNone) IN
    IF mod.raised # "none" THEN mod
    ELSE ReturnValue(Mark(mod.value,
                          <<"S", "k", "i", "p", "p", "i", "n", "g", " ", "b", "e", "c", "a", "u", "s", "e", " ">> \o package \o <<" ", "i", "s", " ", "i", "n", "s", "t", "a", "l", "l", "e", "d", ".">>))

skip_if_no_any_version(package, min_version) ==
    LET msg == <<"C", "o", "u", "l", "d", " ", "n", "o", "t", " ", "i", "m", "p", "o", "r", "t", " ", "'">> \o package \o <<"'">>
        mod == safe_import(package, PyNone)
    IN ReturnValue(Mark(PyBool(~Truthy(mod.value)), msg))

skip_if_no(package, min_version) ==
    LET msg1 == <<"C", "o", "u", "l", "d", " ", "n", "o", "t", " ", "i", "m", "p", "o", "r", "t", " ", "'">> \o package \o <<"'">>
        msg == IF Truthy(min_version)
               THEN msg1 \o <<" ", "s", "a", "t", "i", "s", "f", "y", "i", "n", "g", " ", "a", " ", "m", "i", "n", "_", "v", "e", "r", "s", "i", "o", "n", " ", "o", "f", " ">> \o min_version.v
               ELSE msg1
        mod == safe_import(package, min_version)
    IN IF mod.raised # "none" THEN mod
       ELSE ReturnValue(Mark(PyBool(~Truthy(mod.value)), msg))

NoCall == [called |-> FALSE, package |-> <<>>, min_version |-> PyNone,
           result |-> Raise("none")]
Called(package, min_version, result) ==
    [called |-> TRUE, package |-> package, min_version |-> min_version,
     result |-> result]

CallSafeImport(mod_name, min_version) ==
    /\ probeCall' = Called(mod_name, min_version, safe_import(mod_name, min_version))
    /\ UNCHANGED <<installed, noMark, instMark, leakVars, markVars>>

CallSkipIfNo(package, min_version) ==
    /\ noMark' = Called(package, min_version, skip_if_no(package, min_version))
    /\ UNCHANGED <<installed, probeCall, instMark, leakVars, markVars>>

CallSkipIfInstalled(package) ==
    /\ instMark' = Called(package, PyNone, skip_if_installed(package))
    /\ UNCHANGED <<installed, probeCall, noMark, leakVars, markVars>>

(***************************************************************************)
(* The locale probes, the module-level marks and the test runner           *)
(***************************************************************************)
en_US == <<"e", "n", "_", "U", "S">>
de_DE == <<"d", "e", "_", "D", "E">>
Langs == {PyNone, PyStr(en_US), PyStr(de_DE)}

\* lang, _ = locale.getlocale(); if lang is not None: return True
_skip_if_has_locale_when_unset == IF lang = PyNone THEN PyTrue ELSE PyNone
_skip_if_has_locale == IF lang # PyNone THEN PyTrue ELSE PyNone

\* lang, _ = locale.getlocale(); if lang != "en_US": return True
_skip_if_not_us_locale == IF lang # PyStr(en_US) THEN PyTrue ELSE PyNone

\* str(x) inside an f-string
Format(x) == IF x.type = "NoneType" THEN <<"N", "o", "n", "e">> ELSE x.v

ConfigExpr == <<"c", "o", "n", "f", "i", "g", ".", "g", "e", "t", "v", "a", "l", "u", "e", "(", "'", "-", "-", "a", "r", "r", "a", "y", "-", "m", "a", "n", "a", "g", "e", "r", "'", ")">>
HasLocaleExpr == <<"_", "s", "k", "i", "p", "_", "i", "f", "_", "h", "a", "s", "_", "l", "o", "c", "a", "l", "e", "(", ")">>
LocaleReason == <<"S", "p", "e", "c", "i", "f", "i", "c", " ", "l", "o", "c", "a", "l", "e", " ", "i", "s", " ", "s", "e", "t", " ">> \o Format(lang)

\* The module-level assignments, evaluated when the module is imported.
skip_if_has_locale_deferred == Mark(PyStr(HasLocaleExpr), LocaleReason)
skip_if_has_locale == Mark(_skip_if_has_locale, LocaleReason)
skip_if_not_us_locale == Mark(_skip_if_not_us_locale, LocaleReason)
skip_array_manager_eager == Mark(PyBool(arrayManager), <<"J", "S", "O", "N", " ", "C", " ", "c", "o", "d", "e", " ", "r", "e", "l", "i", "e", "s", " ", "o", "n", " ", "B", "l", "o", "c", "k", "s">>)
skip_array_manager_not_yet_implemented == Mark(PyStr(ConfigExpr), <<"J", "S", "O", "N", " ", "C", " ", "c", "o", "d", "e", " ", "r", "e", "l", "i", "e", "s", " ", "o", "n", " ", "B", "l", "o", "c", "k", "s">>)
skip_array_manager_invalid_test == Mark(PyStr(ConfigExpr), <<"T", "e", "s", "t", " ", "t", "h", "a", "t", " ", "r", "e", "l", "i", "e", "s", " ", "o", "n", " ", "B", "l", "o", "c", "k", "M", "a", "n", "a", "g", "e", "r", " ", "i", "n", "t", "e", "r", "n", "a", "l", "s", " ", "o", "r", " ", "s", "p", "e", "c", "i", "f", "i", "c", " ", "b", "e", "h", "a", "v", "i", "o", "u", "r">>)

MarkNames == {"skip_if_has_locale", "skip_if_not_us_locale",
              "skip_array_manager_not_yet_implemented",
              "skip_array_manager_invalid_test"}
NoMarks == [n \in MarkNames |-> Mark(PyNone, <<>>)]
NoLocaleProbe == [called |-> FALSE, lang |-> PyNone, has_locale |-> PyNone,
                  not_us_locale |-> PyNone]
NoTestRun == [ran |-> FALSE, mark |-> "", skipped |-> FALSE, lang |-> PyNone,
              arrayManager |-> FALSE]
NoLoadInfo == [lang |-> PyNone, arrayManager |-> FALSE]

\* import pandas.util._test_decorators
Import ==
    /\ phase = "unloaded"
    /\ phase' = "loaded"
    /\ marks' = [n \in MarkNames |->
                    CASE n = "skip_if_has_locale" -> skip_if_has_locale
                      [] n = "skip_if_not_us_locale" -> skip_if_not_us_locale
                      [] n = "skip_array_manager_not_yet_implemented" ->
                             skip_array_manager_not_yet_implemented
                      [] n = "skip_array_manager_invalid_test" ->
                             skip_array_manager_invalid_test]
    /\ loadInfo' = [lang |-> lang, arrayManager |-> arrayManager]
    /\ UNCHANGED <<lang, arrayManager, localeProbe, testRun, leakVars, probeVars>>

\* locale.setlocale(...) somewhere in the process
SetLocale(l) ==
    /\ lang # l
    /\ lang' = l
    /\ UNCHANGED <<phase, arrayManager, marks, localeProbe, testRun, loadInfo,
                   leakVars, probeVars>>

\* The test session's configuration gets or changes its '--array-manager' value.
SetArrayManager(b) ==
    /\ arrayManager # b
    /\ arrayManager' = b
    /\ UNCHANGED <<phase, lang, marks, localeProbe, testRun, loadInfo,
                   leakVars, probeVars>>

\* A direct call of the two probes.
ProbeLocale ==
    /\ localeProbe' = [called |-> TRUE, lang |-> lang,
                       has_locale |-> _skip_if_has_locale,
                       not_us_locale |-> _skip_if_not_us_locale]
    /\ UNCHANGED <<phase, lang, arrayManager, marks, testRun, loadInfo,
                   leakVars, probeVars>>

\* The test framework's evaluation of a skipif condition when the test is run:
\* a string is evaluated then, as an expression over the session's config and the
\* module's names; anything else is taken for its truth value.
Evaluate(condition) ==
    IF condition.type = "str"
    THEN CASE condition.v = ConfigExpr -> arrayManager
           [] condition.v = HasLocaleExpr -> Truthy(_skip_if_has_locale)
           [] OTHER -> FALSE
    ELSE Truthy(condition)

RunTest(n) ==
    /\ phase = "loaded"
    /\ testRun' = [ran |-> TRUE, mark |-> n, skipped |-> Evaluate(marks[n].condition),
                   lang |-> lang, arrayManager |-> arrayManager]
    /\ UNCHANGED <<phase, lang, arrayManager, marks, localeProbe, loadInfo,
                   leakVars, probeVars>>

(***************************************************************************)
(* check_file_leaks.__enter__                                              *)
(***************************************************************************)
ReusedLog(old) == old
\* catch_warnings(record=True).__enter__() returns a new, empty list.
NewLog(old) == <<>>

\* The call of __enter__ that raises after the catcher has been entered, if any
\* (psutil raises e.g. AccessDenied); the with statement then never calls __exit__.
EnterFailures == {"none", "open_files", "connections"}

Enter(failure) ==
    /\ pc = "idle"
    /\ scopes < MaxScopes
    /\ scopes' = scopes + 1
    \* self.catcher = warnings.catch_warnings(record=True)
    \* self.record = self.catcher.__enter__()
    /\ catcher' = [sink |-> sink, filters |-> filters]
    /\ record' = NewLog(record)
    /\ atEntry' = [files |-> openFiles, conns |-> connections,
                   sink |-> sink, filters |-> filters]
    /\ bodyWarned' = <<>>
    /\ events' = <<>>
    \* self.psutil = safe_import("psutil")
    /\ psutil' = safe_import(PsutilName, PyNone).value
    /\ IF Truthy(psutil')
       THEN \* self.flist = self.proc.open_files(); self.conns = self.proc.connections()
            /\ flist' = IF failure = "open_files" THEN flist ELSE openFiles
            /\ conns' = IF failure = "none" THEN connections ELSE conns
       ELSE /\ failure = "none"
            /\ UNCHANGED <<flist, conns>>
    /\ IF failure = "none"
       THEN /\ sink' = "scope"
            /\ pc' = "body"
            /\ outcome' = NoOutcome
       ELSE \* the log of a catcher nobody will exit keeps receiving the warnings
            /\ sink' = "orphan"
            /\ pc' = "idle"
            /\ outcome' = [NoOutcome EXCEPT !.kind = "enter_error"]
    /\ UNCHANGED <<filters, ignore_connections, openFiles, connections>>
    /\ UNCHANGED <<probeVars, markVars>>

(***************************************************************************)
(* The body of the scope (the decorated test)                              *)
(***************************************************************************)
leakFrame == <<pc, sink, ignore_connections, psutil, flist, conns,
               catcher, scopes, atEntry, outcome, events, probeVars, markVars>>

\* warnings.warn(...) while the catcher records: the log gets the warning.
Warn(w) ==
    /\ pc = "body"
    /\ Len(bodyWarned) < MaxWarnings
    /\ record' = Append(record, w)
    /\ bodyWarned' = Append(bodyWarned, w)
    /\ UNCHANGED <<filters, openFiles, connections, leakFrame>>

\* warnings.simplefilter(...) in the body.
SimpleFilter ==
    /\ pc = "body"
    /\ filters = "outer"
    /\ filters' = "body"
    /\ UNCHANGED <<record, bodyWarned, openFiles, connections, leakFrame>>

\* open(path): the file gets a descriptor that is free. The bodies keep at most
\* one regular file open at a time.
OpenFile(path, fd) ==
    /\ pc = "body"
    /\ openFiles = {}
    /\ openFiles' = {[path |-> path, fd |-> fd, position |-> 0]}
    /\ UNCHANGED <<filters, record, bodyWarned, connections, leakFrame>>

CloseFile(x) ==
    /\ pc = "body"
    /\ x \in openFiles
    /\ openFiles' = openFiles \ {x}
    /\ UNCHANGED <<filters, record, bodyWarned, connections, leakFrame>>

\* Reading from an open file moves its position.
ReadFile(x) ==
    /\ pc = "body"
    /\ x \in openFiles
    /\ x.position + 1 \in Positions
    /\ openFiles' = (openFiles \ {x}) \cup {[x EXCEPT !.position = x.position + 1]}
    /\ UNCHANGED <<filters, record, bodyWarned, connections, leakFrame>>

Connect ==
    /\ pc = "body"
    /\ Conn \notin connections
    /\ connections' = connections \cup {Conn}
    /\ UNCHANGED <<filters, record, bodyWarned, openFiles, leakFrame>>

Disconnect ==
    /\ pc = "body"
    /\ Conn \in connections
    /\ connections' = connections \ {Conn}
    /\ UNCHANGED <<filters, record, bodyWarned, openFiles, leakFrame>>

(***************************************************************************)
(* check_file_leaks.__exit__                                               *)
(***************************************************************************)
Restored == [op |-> "catcher.__exit__", to |-> "", what |-> <<>>]
Asserted(check) == [op |-> "assert", to |-> check, what |-> <<>>]

\* for message in self.record: warnings.warn_explicit(message.message, ...)
\* Each warning goes to whatever handles warnings at that moment.
Reemit(rec, handler) ==
    [i \in 1..Len(rec) |-> [op |-> "warn_explicit", to |-> handler, what |-> rec[i]]]

Raised(check, text) == [kind |-> "AssertionError", check |-> check, text |-> text]
\* __exit__ returns None: an exception of the body goes on to the caller.
Returned(exc) ==
    [NoOutcome EXCEPT !.kind = IF exc THEN "body_exception" ELSE "returned"]

\* The assertions of __exit__ in their order: <<result, the checks that ran>>.
Assertions(exc) ==
    LET messages == LeakMessages(record)
        flist2 == openFiles
        flist_ex == FileKeys(flist)
        flist2_ex == FileKeys(flist2)
        conns2 == connections
    IN  IF messages # <<>>
        THEN <<Raised("warnings", messages), <<Asserted("warnings")>>>>
        ELSE IF ~Truthy(psutil)
        THEN <<Returned(exc), <<Asserted("warnings")>>>>
        ELSE IF flist2_ex # flist_ex
        THEN <<Raised("files", <<flist_ex \ flist2_ex, flist2_ex \ flist_ex>>),
               <<Asserted("warnings"), Asserted("files")>>>>
        ELSE IF ignore_connections
        THEN <<Returned(exc), <<Asserted("warnings"), Asserted("files")>>>>
        ELSE IF conns2 # conns
        THEN <<Raised("conns", <<conns \ conns2, conns2 \ conns>>),
               <<Asserted("warnings"), Asserted("files"), Asserted("conns")>>>>
        ELSE <<Returned(exc),
               <<Asserted("warnings"), Asserted("files"), Asserted("conns")>>>>

ExitStepsAssertFirst(handler, result, checks) ==
    <<Restored>> \o checks
    \o (IF result.kind = "AssertionError" THEN <<>> ELSE Reemit(record, handler))
\* The statements of __exit__ in program order.
ExitSteps(handler, result, checks) ==
    <<Restored>> \o Reemit(record, handler) \o checks

\* exc: the body ended by raising, and the with statement passes the exception.
Exit(exc) ==
    /\ pc = "body"
    /\ pc' = "idle"
    \* self.catcher.__exit__(*exc)
    /\ sink' = catcher.sink
    /\ filters' = catcher.filters
    /\ LET a == Assertions(exc) IN
       /\ outcome' = a[1]
       /\ events' = ExitSteps(catcher.sink, a[1], a[2])
    /\ UNCHANGED <<scopes, catcher, record, psutil, flist, conns, ignore_connections,
                   openFiles, connections, atEntry, bodyWarned>>
    /\ UNCHANGED <<probeVars, markVars>>

InitLeaks ==
    /\ pc = "idle"
    /\ scopes = 0
    /\ sink = "outer"
    /\ filters = "outer"
    /\ catcher = NoCatcher
    /\ record = <<>>
    /\ psutil = PyNone
    /\ flist = {}
    /\ conns = {}
    /\ ignore_connections \in BOOLEAN
    /\ openFiles = {}
    /\ connections = {}
    /\ events = <<>>
    /\ outcome = NoOutcome
    /\ atEntry = NoEntry
    /\ bodyWarned = <<>>
    /\ installed \in {[n \in ModNames |-> Absent],
                      [n \in ModNames |-> IF n = PsutilName
                                          THEN [Absent EXCEPT !.present = TRUE]
                                          ELSE Absent]}
    /\ probeCall = NoCall /\ noMark = NoCall /\ instMark = NoCall
    /\ phase = "unloaded" /\ lang = PyNone /\ arrayManager = FALSE /\ marks = NoMarks
    /\ localeProbe = NoLocaleProbe /\ testRun = NoTestRun /\ loadInfo = NoLoadInfo

NextLeaks ==
    \/ \E failure \in EnterFailures : Enter(failure)
    \/ \E w \in Warnings : Warn(w)
    \/ SimpleFilter
    \/ \E path \in Paths, fd \in Fds : OpenFile(path, fd)
    \/ \E x \in OpenFileRecords : CloseFile(x)
    \/ \E x \in OpenFileRecords : ReadFile(x)
    \/ Connect
    \/ Disconnect
    \/ \E exc \in BOOLEAN : Exit(exc)

SpecLeaks == InitLeaks /\ [][NextLeaks]_vars

LeakIdle ==
    /\ pc = "idle" /\ scopes = 0 /\ sink = "outer" /\ filters = "outer"
    /\ catcher = NoCatcher /\ record = <<>> /\ psutil = PyNone /\ flist = {}
    /\ conns = {} /\ ignore_connections = FALSE /\ openFiles = {} /\ connections = {}
    /\ events = <<>> /\ outcome = NoOutcome /\ atEntry = NoEntry /\ bodyWarned = <<>>

InitProbes ==
    /\ installed \in Environments
    /\ probeCall = NoCall /\ noMark = NoCall /\ instMark = NoCall
    /\ phase = "unloaded" /\ lang = PyNone /\ arrayManager = FALSE /\ marks = NoMarks
    /\ localeProbe = NoLocaleProbe /\ testRun = NoTestRun /\ loadInfo = NoLoadInfo
    /\ LeakIdle

NextProbes ==
    \/ \E n \in ModNames, v \in MinVersions : CallSafeImport(n, v)
    \/ \E n \in ModNames, v \in MinVersions : CallSkipIfNo(n, v)
    \/ \E n \in ModNames : CallSkipIfInstalled(n)

SpecProbes == InitProbes /\ [][NextProbes]_vars

InitMarks ==
    /\ phase = "unloaded"
    /\ lang \in Langs
    /\ arrayManager \in BOOLEAN
    /\ marks = NoMarks
    /\ localeProbe = NoLocaleProbe /\ testRun = NoTestRun /\ loadInfo = NoLoadInfo
    /\ installed = [n \in ModNames |-> Absent]
    /\ probeCall = NoCall /\ noMark = NoCall /\ instMark = NoCall
    /\ LeakIdle

NextMarks ==
    \/ Import
    \/ \E l \in Langs : SetLocale(l)
    \/ \E b \in BOOLEAN : SetArrayManager(b)
    \/ ProbeLocale
    \/ \E n \in MarkNames : RunTest(n)

SpecMarks == InitMarks /\ [][NextMarks]_vars

(***************************************************************************)
(* Properties of check_file_leaks                                          *)
(***************************************************************************)
PsutilInstalled == installed[PsutilName].present

\* Control has left the latest scope through __exit__.
Exited == pc = "idle" /\ outcome.kind \in {"returned", "body_exception", "AssertionError"}

IsEmit(e) == e.op = "warn_explicit"
IsAssert(e) == e.op = "assert"

\* What the process looks like now against what it looked like at scope entry.
FilesDiffer ==
    {<<x.path, x.fd>> : x \in openFiles} # {<<x.path, x.fd>> : x \in atEntry.files}
ConnsDiffer == connections # atEntry.conns
NewlyOpen == {x \in openFiles : \A y \in atEntry.files : x.path # y.path \/ x.fd # y.fd}

\* The warnings of the bodies that the leak checker is to report.
Offending == {[category |-> "ResourceWarning", message |-> MsgFile],
              [category |-> "UnclosedSocketWarning", message |-> MsgNearSsl]}
ResourceCategories == {"ResourceWarning", "UnclosedSocketWarning"}
OffendingRecorded == \E i \in 1..Len(bodyWarned) : bodyWarned[i] \in Offending
NoResourceWarning ==
    \A i \in 1..Len(bodyWarned) : bodyWarned[i].category \notin ResourceCategories

\* C1: with psutil available and no ResourceWarning recorded, __exit__ raises an
\* AssertionError exactly when the (path, fd) pairs of the open files differ from
\* those at entry, or (unless ignore_connections) the connections differ; the file
\* position plays no part, and a file left open is named in the message.
C1_FileAndConnectionLeaks ==
    (Exited /\ PsutilInstalled /\ NoResourceWarning) =>
        /\ (outcome.kind = "AssertionError")
               <=> (FilesDiffer \/ (~ignore_connections /\ ConnsDiffer))
        /\ FilesDiffer =>
               /\ outcome.check = "files"
               /\ \A x \in NewlyOpen : <<x.path, x.fd>> \in outcome.text[2]
        /\ (~FilesDiffer /\ outcome.kind = "AssertionError") => outcome.check = "conns"

\* A file opened in the scope and left open made __exit__ raise, naming its path.
C1_Witness_LeftOpen ==
    /\ Exited /\ PsutilInstalled /\ NoResourceWarning
    /\ atEntry.files = {}
    /\ \E x \in openFiles : x.position = 1 /\ <<x.path, x.fd>> \in outcome.text[2]
    /\ outcome.kind = "AssertionError"

\* C2: when a scope has exited, with or without a leak failure, __exit__ has handed
\* every warning recorded in the scope, in order, to the handler that was in place
\* before the scope, and did so before running any of its assertions.
C2_ReemittedBeforeAssertions ==
    Exited =>
        LET emits == SelectSeq(events, IsEmit) IN
        /\ Len(emits) = Len(bodyWarned)
        /\ \A i \in 1..Len(emits) :
               emits[i].what = bodyWarned[i] /\ emits[i].to = atEntry.sink
        /\ \A i, j \in 1..Len(events) :
               (IsEmit(events[i]) /\ IsAssert(events[j])) => i < j
        /\ \E j \in 1..Len(events) : IsAssert(events[j])

\* A scope that failed its ResourceWarning assertion re-emitted two warnings.
C2_Witness_FailedScopeReemits ==
    /\ Exited /\ outcome.kind = "AssertionError"
    /\ Len(bodyWarned) = 2
    /\ bodyWarned[1].category = "UserWarning"
    /\ Len(SelectSeq(events, IsEmit)) = 2

\* C3: whenever control is outside every scope, the warning handler and the filters
\* are the ones that were in place before the latest scope was entered.
C3_InterceptionAlwaysUndone ==
    (pc = "idle" /\ scopes > 0) => (sink = atEntry.sink /\ filters = atEntry.filters)

\* C4: __exit__ raises the AssertionError that lists warning messages exactly when a
\* recorded warning is a ResourceWarning (or subclass) whose message has no "ssl";
\* the message lists those warnings' messages; psutil plays no part.
C4_ResourceWarningAssertion ==
    Exited =>
        /\ (outcome.kind = "AssertionError" /\ outcome.check = "warnings")
               <=> OffendingRecorded
        /\ OffendingRecorded =>
               /\ \A i \in 1..Len(bodyWarned) :
                      bodyWarned[i] \in Offending
                          <=> \E k \in 1..Len(outcome.text) :
                                  outcome.text[k] = bodyWarned[i].message
               /\ Len(outcome.text) =
                      Cardinality({i \in 1..Len(bodyWarned) : bodyWarned[i] \in Offending})

\* Without psutil, a subclass warning failed the scope next to an "ssl" one.
C4_Witness_SubclassReported ==
    /\ Exited /\ ~PsutilInstalled
    /\ outcome.kind = "AssertionError" /\ outcome.check = "warnings"
    /\ Len(bodyWarned) = 2
    /\ bodyWarned[1] = [category |-> "ResourceWarning", message |-> MsgSsl]
    /\ bodyWarned[2] = [category |-> "UnclosedSocketWarning", message |-> MsgNearSsl]

\* C10: the outcome of a second or later scope of the same instance is decided by
\* what happened between its own entry and exit alone.
C10_ScopesIndependent ==
    (Exited /\ scopes >= 2) =>
        ((outcome.kind = "AssertionError")
            <=> \/ OffendingRecorded
                \/ PsutilInstalled /\ FilesDiffer
                \/ PsutilInstalled /\ ~ignore_connections /\ ConnsDiffer)

\* The process starts with no file open, so a file open at the entry of the second
\* scope was left open by the first, which failed for it; the second scope, which
\* leaked nothing, returned normally.
C10_Witness_CleanAfterFailure ==
    /\ Exited /\ scopes = 2
    /\ PsutilInstalled
    /\ atEntry.files # {}
    /\ bodyWarned = <<>>
    /\ outcome.kind = "returned"

(***************************************************************************)
(* Properties of the dependency probes                                     *)
(***************************************************************************)
\* The dotted numeric versions of the environment, from lowest to highest.
DottedOrder == <<V_0_9, V_1_9_0, V_1_10, V_1_10_0, V_2_0>>
IsDotted(v) == \E i \in 1..Len(DottedOrder) : DottedOrder[i] = v
Rank(v) == CHOOSE i \in 1..Len(DottedOrder) : DottedOrder[i] = v

\* The version a module reports: __version__, else __VERSION__.
Reported(m) == IF m.version # NoAttr THEN m.version ELSE m.VERSION
NoMinimum(mv) == mv = PyNone \/ mv = PyStr(<<>>)
\* Both versions are dotted numbers, so that their order is the table's.
Comparable(package, mv) ==
    /\ installed[package].present
    /\ ~NoMinimum(mv)
    /\ IsDotted(mv.v)
    /\ Reported(installed[package]) # NoAttr
    /\ IsDotted(Reported(installed[package]).v)
AtLeast(package, mv) == Rank(Reported(installed[package]).v) >= Rank(mv.v)

\* C5: safe_import returns the module when it imports and no minimum is asked or
\* its reported version is at least the minimum in dotted order; it returns False,
\* without raising, when the module is missing or its version is lower.
C5_SafeImport ==
    probeCall.called =>
        LET p == probeCall.package
            mv == probeCall.min_version
            r == probeCall.result
        IN /\ ~installed[p].present => r = ReturnValue(PyFalse)
           /\ (installed[p].present /\ NoMinimum(mv)) => r = ReturnValue(PyModule(p))
           /\ Comparable(p, mv) =>
                  r = ReturnValue(IF AtLeast(p, mv) THEN PyModule(p) ELSE PyFalse)
           /\ (r.raised = "none" /\ r.value.type = "module") =>
                  /\ r.value = PyModule(p)
                  /\ installed[p].present
                  /\ NoMinimum(mv) \/ Reported(installed[p]) \notin {NoAttr, PyStr(<<>>)}
           /\ (r.raised = "none" /\ r.value.type # "module") => ~Truthy(r.value)

\* A module that only has __VERSION__ = "1.10.0" passed a minimum of "1.9.0".
C5_Witness_TenAboveNine ==
    /\ probeCall.called
    /\ probeCall.min_version = PyStr(V_1_9_0)
    /\ installed[probeCall.package].version = NoAttr
    /\ installed[probeCall.package].VERSION = PyStr(V_1_10_0)
    /\ probeCall.result = ReturnValue(PyModule(probeCall.package))

\* C6: skip_if_no's condition is true exactly when the import or its version check
\* fails, and its reason holds the package name and the requested version;
\* skip_if_installed's condition is true exactly when the package imports; with no
\* minimum version exactly one of the two is true for a package.
C6_SkipMarks ==
    /\ (noMark.called /\ noMark.result.raised = "none") =>
           LET p == noMark.package
               mv == noMark.min_version
               mark == noMark.result.value
           IN /\ ~installed[p].present => Truthy(mark.condition)
              /\ (installed[p].present /\ NoMinimum(mv)) => ~Truthy(mark.condition)
              /\ Comparable(p, mv) => (Truthy(mark.condition) <=> ~AtLeast(p, mv))
              /\ Contains(p, mark.reason)
              /\ ~NoMinimum(mv) => Contains(mv.v, mark.reason)
    /\ instMark.called =>
           /\ instMark.result.raised = "none"
           /\ Truthy(instMark.result.value.condition)
                  <=> installed[instMark.package].present
           /\ Contains(instMark.package, instMark.result.value.reason)
    /\ (noMark.called /\ instMark.called /\ noMark.package = instMark.package
            /\ NoMinimum(noMark.min_version)) =>
           (Truthy(noMark.result.value.condition)
               # Truthy(instMark.result.value.condition))

\* For an installed package below the requested minimum, skip_if_no says skip and
\* skip_if_installed says skip as well.
C6_Witness_BelowMinimum ==
    /\ noMark.called /\ instMark.called
    /\ noMark.package = PsutilName /\ instMark.package = PsutilName
    /\ noMark.min_version = PyStr(V_1_10_0)
    /\ installed[PsutilName].version = PyStr(V_1_9_0)
    /\ noMark.result.raised = "none"
    /\ Truthy(noMark.result.value.condition)
    /\ Truthy(instMark.result.value.condition)

(***************************************************************************)
(* Properties of the locale probes and the module-level marks              *)
(***************************************************************************)
LocaleMarks == {"skip_if_has_locale", "skip_if_not_us_locale"}
ArrayManagerMarks == {"skip_array_manager_not_yet_implemented",
                      "skip_array_manager_invalid_test"}
\* Whether a locale mark means skip for a process whose locale language is l.
SkipFor(n, l) == IF n = "skip_if_has_locale" THEN l # PyNone ELSE l # PyStr(en_US)

\* C7 as stated: a test under a locale mark is skipped according to the locale at
\* the time the test is run.
C7_Original_LocaleAtRunTime ==
    (testRun.ran /\ testRun.mark \in LocaleMarks) =>
        (testRun.skipped <=> SkipFor(testRun.mark, testRun.lang))

\* C7 as amended: a test under a locale mark is skipped according to the locale at
\* the time the module was imported, whatever the locale is when the test is run.
C7_LocaleAtImportTime ==
    (testRun.ran /\ testRun.mark \in LocaleMarks) =>
        (testRun.skipped <=> SkipFor(testRun.mark, loadInfo.lang))

\* The locale was unset at import and en_US at the run: the test was not skipped.
C7_Witness_LocaleChanged ==
    /\ testRun.ran /\ testRun.mark = "skip_if_has_locale"
    /\ loadInfo.lang = PyNone
    /\ testRun.lang = PyStr(en_US)
    /\ ~testRun.skipped

\* C8 as stated: _skip_if_has_locale reports skip when the language is unset, and
\* _skip_if_not_us_locale reports skip exactly when the language is not "en_US".
C8_Original_SkipWhenUnset ==
    localeProbe.called =>
        /\ localeProbe.lang = PyNone => Truthy(localeProbe.has_locale)
        /\ Truthy(localeProbe.not_us_locale) <=> localeProbe.lang # PyStr(en_US)

\* C8 as amended: _skip_if_has_locale reports skip exactly when the language is
\* set, and _skip_if_not_us_locale exactly when it is not "en_US" (unset included).
C8_LocaleProbes ==
    localeProbe.called =>
        /\ Truthy(localeProbe.has_locale) <=> localeProbe.lang # PyNone
        /\ Truthy(localeProbe.not_us_locale) <=> localeProbe.lang # PyStr(en_US)

\* With the language unset, only the US-locale probe reported skip.
C8_Witness_Unset ==
    /\ localeProbe.called
    /\ localeProbe.lang = PyNone
    /\ ~Truthy(localeProbe.has_locale)
    /\ Truthy(localeProbe.not_us_locale)

\* C9: the two '--array-manager' marks hold a string condition once the module is
\* loaded, and a test under them is skipped exactly when the flag is true at the
\* time the test is run.
C9_ArrayManagerAtRunTime ==
    /\ phase = "loaded" =>
           \A n \in ArrayManagerMarks : marks[n].condition = PyStr(ConfigExpr)
    /\ (testRun.ran /\ testRun.mark \in ArrayManagerMarks) =>
           (testRun.skipped <=> testRun.arrayManager)

\* The flag was false at import and true at the run: the test was skipped.
C9_Witness_FlagSetLater ==
    /\ testRun.ran /\ testRun.mark = "skip_array_manager_not_yet_implemented"
    /\ ~loadInfo.arrayManager
    /\ testRun.arrayManager
    /\ testRun.skipped

====
